---- MODULE Spec2Model ----
(***************************************************************************)
(* Model of app.py (Akinator Oracle backend): the bounded thread caller    *)
(* run_in_thread, the startup model probe over MODEL_PRIORITY, and the     *)
(* /api/ask and /api/status handlers.                                      *)
(*                                                                         *)
(* Python values are tagged records: [t |-> "none"], [t |-> "bool", v],    *)
(* [t |-> "num", v], [t |-> "str", v], [t |-> "list", v |-> <<..>>] and    *)
(* [t |-> "dict", v |-> << <<key, value>>, .. >>] (keys unique, in         *)
(* insertion order).  Python strings are TLA+ strings.                     *)
(***************************************************************************)
EXTENDS Integers, Sequences, FiniteSets, TLC

\* ------------------------------------------------------------------------
\* Python values
\* ------------------------------------------------------------------------
None == [t |-> "none"]
PyBool(b) == [t |-> "bool", v |-> b]
Num(n) == [t |-> "num", v |-> n]
Str(s) == [t |-> "str", v |-> s]
List(q) == [t |-> "list", v |-> q]
Dict(q) == [t |-> "dict", v |-> q]

\* bool(v): Python truthiness of the value kinds above
Truthy(v) ==
    CASE v.t = "none" -> FALSE
      [] v.t = "bool" -> v.v
      [] v.t = "num"  -> v.v # 0
      [] v.t = "str"  -> v.v # ""
      [] v.t = "list" -> Len(v.v) > 0
      [] v.t = "dict" -> Len(v.v) > 0
      [] OTHER        -> TRUE

\* a or b
PyOr(a, b) == IF Truthy(a) THEN a ELSE b

HasKey(d, k) == \E i \in 1..Len(d.v) : d.v[i][1] = k

\* d.get(k, default) for a dict d
DictGet(d, k, default) ==
    IF HasKey(d, k)
    THEN d.v[CHOOSE i \in 1..Len(d.v) : d.v[i][1] = k][2]
    ELSE default

\* d[k] = x, as json.loads builds an object: a repeated key keeps its first
\* position and takes the last value
DictSet(d, k, x) ==
    IF HasKey(d, k)
    THEN Dict([i \in 1..Len(d.v) |-> IF d.v[i][1] = k THEN <<k, x>> ELSE d.v[i]])
    ELSE Dict(Append(d.v, <<k, x>>))

\* ------------------------------------------------------------------------
\* Strings
\* ------------------------------------------------------------------------
Ch(s, i) == IF i >= 1 /\ i <= Len(s) THEN SubSeq(s, i, i) ELSE ""
From(s, i) == SubSeq(s, i, Len(s))

Digits == <<"0", "1", "2", "3", "4", "5", "6", "7", "8", "9">>
IsDigit(c) == \E k \in 1..10 : Digits[k] = c
DigitVal(c) == (CHOOSE k \in 1..10 : Digits[k] = c) - 1

RECURSIVE NatStr(_)
NatStr(n) == IF n < 10 THEN Digits[n + 1] ELSE NatStr(n \div 10) \o Digits[(n % 10) + 1]

\* str(n) for an int
IntStr(n) == IF n < 0 THEN "-" \o NatStr(-n) ELSE NatStr(n)

\* str(v) for the scalar value kinds
PyStr(v) ==
    CASE v.t = "none" -> "None"
      [] v.t = "bool" -> IF v.v THEN "True" ELSE "False"
      [] v.t = "num"  -> IntStr(v.v)
      [] v.t = "str"  -> v.v

\* str.strip() / str.lstrip(): the whitespace str.strip() removes
StripWs == {" ", "\t", "\n", "\r", "\f"}

RECURSIVE LStripSet(_, _)
LStripSet(s, cs) == IF s # "" /\ Ch(s, 1) \in cs THEN LStripSet(Tail(s), cs) ELSE s

RECURSIVE RStripSet(_, _)
RStripSet(s, cs) ==
    IF s # "" /\ Ch(s, Len(s)) \in cs THEN RStripSet(SubSeq(s, 1, Len(s) - 1), cs) ELSE s

Strip(s) == RStripSet(LStripSet(s, StripWs), StripWs)

\* The backtick cannot be written in a TLA+ string: "~" stands for it in every
\* modelled text, so Fence is the Markdown code-fence mark of app.py line 168.
BT == "~"
Fence == BT \o BT \o BT

\* s.find(sub, from i): index of the first occurrence at or after i, 0 if none
RECURSIVE Find(_, _, _)
Find(s, sub, i) ==
    IF i + Len(sub) - 1 > Len(s) THEN 0
    ELSE IF SubSeq(s, i, i + Len(sub) - 1) = sub THEN i
    ELSE Find(s, sub, i + 1)

\* sub in s
Contains(s, sub) == Find(s, sub, 1) # 0

\* s.split(sep)[1], for s that contains sep: the text between the first
\* occurrence of sep and the next one (or the end)
SplitSecond(s, sep) ==
    LET a    == Find(s, sep, 1)
        rest == From(s, a + Len(sep))
        b    == Find(rest, sep, 1)
    IN IF b = 0 THEN rest ELSE SubSeq(rest, 1, b - 1)

StartsAt(s, i, lit) == i + Len(lit) - 1 <= Len(s) /\ SubSeq(s, i, i + Len(lit) - 1) = lit

\* ------------------------------------------------------------------------
\* json.loads, for the JSON texts without string escapes, fractions and
\* exponents (no modelled text contains a backslash, "." or an exponent)
\* ------------------------------------------------------------------------
JsonWs == {" ", "\t", "\n", "\r"}

RECURSIVE SkipWs(_, _)
SkipWs(s, i) == IF Ch(s, i) \in JsonWs THEN SkipWs(s, i + 1) ELSE i

Fail == [ok |-> FALSE, val |-> None, pos |-> 0]
Ok(v, p) == [ok |-> TRUE, val |-> v, pos |-> p]

\* index of the quote that closes a string whose text starts at i, 0 if none;
\* a raw control character ends the scan with an error, as the strict decoder does
RECURSIVE StrEnd(_, _)
StrEnd(s, i) ==
    LET c == Ch(s, i)
    IN IF c = "" \/ c \in {"\\", "\n", "\t", "\r", "\f"} THEN 0
       ELSE IF c = "\"" THEN i
       ELSE StrEnd(s, i + 1)

ParseStr(s, i) ==
    LET e == StrEnd(s, i + 1)
    IN IF Ch(s, i) # "\"" \/ e = 0 THEN Fail ELSE Ok(Str(SubSeq(s, i + 1, e - 1)), e + 1)

RECURSIVE DigitsEnd(_, _)
DigitsEnd(s, i) == IF IsDigit(Ch(s, i)) THEN DigitsEnd(s, i + 1) ELSE i

RECURSIVE NatVal(_)
NatVal(d) == IF d = "" THEN 0 ELSE 10 * NatVal(SubSeq(d, 1, Len(d) - 1)) + DigitVal(Ch(d, Len(d)))

\* -?(0|[1-9][0-9]*)
ParseNum(s, i) ==
    LET neg == Ch(s, i) = "-"
        st  == IF neg THEN i + 1 ELSE i
        e   == DigitsEnd(s, st)
        n   == NatVal(SubSeq(s, st, e - 1))
    IN IF ~IsDigit(Ch(s, st)) THEN Fail
       ELSE IF Ch(s, st) = "0" THEN Ok(Num(0), st + 1)
       ELSE Ok(Num(IF neg THEN -n ELSE n), e)

RECURSIVE ParseValue(_, _)
RECURSIVE ParseElems(_, _, _)
RECURSIVE ParseMembers(_, _, _)

ParseValue(s, i) ==
    LET c == Ch(s, i)
        j == SkipWs(s, i + 1)
    IN IF c = "{" THEN (IF Ch(s, j) = "}" THEN Ok(Dict(<<>>), j + 1)
                        ELSE ParseMembers(s, j, Dict(<<>>)))
       ELSE IF c = "[" THEN (IF Ch(s, j) = "]" THEN Ok(List(<<>>), j + 1)
                             ELSE ParseElems(s, j, <<>>))
       ELSE IF c = "\"" THEN ParseStr(s, i)
       ELSE IF c = "-" \/ IsDigit(c) THEN ParseNum(s, i)
       ELSE IF StartsAt(s, i, "true") THEN Ok(PyBool(TRUE), i + 4)
       ELSE IF StartsAt(s, i, "false") THEN Ok(PyBool(FALSE), i + 5)
       ELSE IF StartsAt(s, i, "null") THEN Ok(None, i + 4)
       ELSE Fail

\* the elements of an array from i on, acc holding the ones read so far
ParseElems(s, i, acc) ==
    LET r == ParseValue(s, i)
        j == SkipWs(s, r.pos)
    IN IF ~r.ok THEN Fail
       ELSE IF Ch(s, j) = "," THEN ParseElems(s, SkipWs(s, j + 1), Append(acc, r.val))
       ELSE IF Ch(s, j) = "]" THEN Ok(List(Append(acc, r.val)), j + 1)
       ELSE Fail

\* the members of an object from i on, d holding the ones read so far
ParseMembers(s, i, d) ==
    LET k == ParseStr(s, i)
        j == SkipWs(s, k.pos)
        r == ParseValue(s, SkipWs(s, j + 1))
        e == SkipWs(s, r.pos)
    IN IF ~k.ok \/ Ch(s, j) # ":" \/ ~r.ok THEN Fail
       ELSE IF Ch(s, e) = "," THEN ParseMembers(s, SkipWs(s, e + 1), DictSet(d, k.val.v, r.val))
       ELSE IF Ch(s, e) = "}" THEN Ok(DictSet(d, k.val.v, r.val), e + 1)
       ELSE Fail

\* json.loads(s): ok = FALSE models the JSONDecodeError
JsonLoads(s) ==
    LET r == ParseValue(s, SkipWs(s, 1))
    IN IF r.ok /\ SkipWs(s, r.pos) = Len(s) + 1 THEN r ELSE Fail

\* ------------------------------------------------------------------------
\* Bounds
\* ------------------------------------------------------------------------
\* run_in_thread calls (live or abandoned) that can exist at once
NumCalls == 2
\* HTTP requests in flight at once
NumRequests == 2
\* longest history array of a modelled request body
MaxHistory == 2

CallIds == 1..NumCalls
ReqIds == 1..NumRequests

\* ------------------------------------------------------------------------
\* Exceptions, callables' products and call outcomes
\* ------------------------------------------------------------------------
Exc(cls, msg) == [t |-> "exc", cls |-> cls, msg |-> msg]

\* classes that derive from BaseException but not from Exception
BaseOnlyClasses == {"CancelledError", "SystemExit", "KeyboardInterrupt"}

\* isinstance(e, Exception): what "except Exception" catches
IsException(e) == e.cls \notin BaseOnlyClasses

\* str(e)
ExcStr(e) == e.msg

NoOutcome == [kind |-> "none"]
Returned(v) == [kind |-> "return", v |-> v]
Raised(e) == [kind |-> "raise", e |-> e]

\* the SDK's chat result object: chat_output and payment_hash attributes
Result(chat_output, payment_hash) ==
    [t |-> "obj", chat_output |-> chat_output, payment_hash |-> payment_hash]

ChatOutput(content) == Dict(<< <<"content", content>> >>)

\* ------------------------------------------------------------------------
\* run_in_thread (app.py lines 42-54)
\* ------------------------------------------------------------------------
DefaultTimeout == 90

\* Exception(f"Timed out after {timeout}s")
TimeoutError(timeout) == Exc("Exception", "Timed out after " \o IntStr(timeout) \o "s")

\* a single box shared by every call
BoxOfShared(c) == 1

\* the box cell a worker of call c writes: its own closure's list
BoxOf(c) == c

\* line 52 left out
CheckOutcomeNoAlive(alive, err, res) ==
    IF Truthy(err) THEN Raised(err) ELSE Returned(res)

\* lines 52-54, read once the join has returned
CheckOutcome(alive, err, res) ==
    IF alive THEN Raised(TimeoutError(DefaultTimeout))
    ELSE IF Truthy(err) THEN Raised(err)
    ELSE Returned(res)

VARIABLES
    mainPc,             \* "probe" | "probe_wait" | "serve": the main thread
    idx,                \* position of the startup loop in MODEL_PRIORITY
    mainCall,           \* the call the main thread waits in, 0 if none
    ACTIVE_MODEL,
    ACTIVE_MODEL_NAME,
    probeOutcome,       \* history, per candidate: "unprobed" | "content" | "nothing"
    callPc,             \* per call: "free" | "join" | "check" | "done"
    thread,             \* per call: "none" | "alive" | "dead"
    result_box,
    error_box,
    callArgs,           \* per call: the model and messages its callable closes over
    produced,           \* history: what the call's callable did on the worker
    expired,            \* history: the join returned with the worker still alive
    outcome,            \* per call: what run_in_thread delivered to its caller
    reqPc,              \* per request: "idle" | "waiting" | "responded"
    req,                \* per request: path, method and body
    reqCall,            \* per request: the call the handler waits in, 0 if none
    resp,               \* per request: status and body of the response
    delivered           \* history, per request: what run_in_thread gave the handler

startupVars == <<mainPc, idx, mainCall, ACTIVE_MODEL, ACTIVE_MODEL_NAME, probeOutcome>>
callVars == <<callPc, thread, result_box, error_box, callArgs, produced, expired, outcome>>
reqVars == <<reqPc, req, reqCall, resp, delivered>>
vars == <<startupVars, callVars, reqVars>>

NoArgs == [model |-> None, messages |-> List(<<>>)]

\* a slot with no caller in it and no worker still running
IsFree(c) == callPc[c] = "free" /\ thread[c] # "alive"
HasFree == \E c \in CallIds : IsFree(c)
FreeSlot == CHOOSE c \in CallIds : IsFree(c) /\ \A d \in CallIds : IsFree(d) => c <= d

\* lines 44-50: fresh boxes, the worker thread started
StartCall(c, args) ==
    /\ callPc' = [callPc EXCEPT ![c] = "join"]
    /\ thread' = [thread EXCEPT ![c] = "alive"]
    /\ result_box' = [result_box EXCEPT ![c] = None]
    /\ error_box' = [error_box EXCEPT ![c] = None]
    /\ callArgs' = [callArgs EXCEPT ![c] = args]
    /\ produced' = [produced EXCEPT ![c] = NoOutcome]
    /\ expired' = [expired EXCEPT ![c] = FALSE]
    /\ outcome' = [outcome EXCEPT ![c] = NoOutcome]

\* the caller has taken the outcome: its frame is gone, the worker, if still
\* alive, is abandoned and keeps its boxes
ReleaseCall(c) ==
    /\ callPc' = [callPc EXCEPT ![c] = "free"]
    /\ thread' = [thread EXCEPT ![c] = IF @ = "alive" THEN "alive" ELSE "none"]
    /\ result_box' = [result_box EXCEPT ![c] = None]
    /\ error_box' = [error_box EXCEPT ![c] = None]
    /\ callArgs' = [callArgs EXCEPT ![c] = NoArgs]
    /\ produced' = [produced EXCEPT ![c] = NoOutcome]
    /\ expired' = [expired EXCEPT ![c] = FALSE]
    /\ outcome' = [outcome EXCEPT ![c] = NoOutcome]

\* lines 46-48, run(): fn() returns (out.kind = "return") or raises; an
\* exception that is not an Exception ends the thread with both boxes untouched.
\* The boxes of an abandoned call are freed with its worker.
WorkerRun(c, out) ==
    /\ thread[c] = "alive"
    /\ LET abandoned == callPc[c] = "free"
           res == [result_box EXCEPT ![BoxOf(c)] = IF out.kind = "return" THEN out.v ELSE @]
           err == [error_box EXCEPT ![BoxOf(c)] =
                      IF out.kind = "raise" /\ IsException(out.e) THEN out.e ELSE @]
       IN /\ thread' = [thread EXCEPT ![c] = IF abandoned THEN "none" ELSE "dead"]
          /\ produced' = [produced EXCEPT ![c] = IF abandoned THEN @ ELSE out]
          /\ result_box' = IF abandoned THEN [res EXCEPT ![c] = None] ELSE res
          /\ error_box' = IF abandoned THEN [err EXCEPT ![c] = None] ELSE err
    /\ UNCHANGED <<callPc, callArgs, expired, outcome>>
    /\ UNCHANGED <<startupVars, reqVars>>

\* line 51, t.join(timeout): returns when the worker has ended, or when the
\* bound expires with the worker still alive
Join(c) ==
    /\ callPc[c] = "join"
    /\ callPc' = [callPc EXCEPT ![c] = "check"]
    /\ expired' = [expired EXCEPT ![c] = (thread[c] = "alive")]
    /\ UNCHANGED <<thread, result_box, error_box, callArgs, produced, outcome>>
    /\ UNCHANGED <<startupVars, reqVars>>

\* lines 52-54
Check(c) ==
    /\ callPc[c] = "check"
    /\ callPc' = [callPc EXCEPT ![c] = "done"]
    /\ outcome' = [outcome EXCEPT ![c] =
                      CheckOutcome(thread[c] = "alive", error_box[c], result_box[c])]
    /\ UNCHANGED <<thread, result_box, error_box, callArgs, produced, expired>>
    /\ UNCHANGED <<startupVars, reqVars>>

\* ------------------------------------------------------------------------
\* Startup model probing (app.py lines 81-112)
\* ------------------------------------------------------------------------
MODEL_PRIORITY ==
    << <<"CLAUDE_3_5_HAIKU", "TEE_LLM.CLAUDE_3_5_HAIKU">>,
       <<"GPT_4O",           "TEE_LLM.GPT_4O">>,
       <<"GEMINI_2_0_FLASH", "TEE_LLM.GEMINI_2_0_FLASH">>,
       <<"GROK_3_MINI_BETA", "TEE_LLM.GROK_3_MINI_BETA">> >>

NumModels == Len(MODEL_PRIORITY)

FallbackModel == Str("TEE_LLM.CLAUDE_3_5_HAIKU")
FallbackName == Str("CLAUDE_3_5_HAIKU (fallback)")

Message(role, content) == Dict(<< <<"role", role>>, <<"content", content>> >>)

\* lines 94-95
ProbeMessages ==
    List(<< Message(Str("system"), Str("Reply with one word: OK")),
            Message(Str("user"), Str("Ready?")) >>)

\* lines 91-108 for what run_in_thread delivered: [ok, v] is the content read
\* at line 99, ok = FALSE an exception on the way (run_in_thread's own, or the
\* AttributeError of reading chat_output off None), caught at line 107
ProbeContent(out) ==
    IF out.kind # "return" \/ out.v.t # "obj" THEN [ok |-> FALSE, v |-> None]
    ELSE LET co == PyOr(out.v.chat_output, Dict(<<>>))
         IN [ok |-> TRUE, v |-> DictGet(co, "content", Str(""))]

\* line 100 left out: any returned result is taken
ProbeAcceptsAny(out) == ProbeContent(out).ok

\* line 100: the candidate is taken
ProbeAccepts(out) == ProbeContent(out).ok /\ Truthy(ProbeContent(out).v)

\* lines 110-111 left out
AfterLoopModelKept(am) == am

\* lines 110-112
AfterLoopModel(am) == IF ~Truthy(am) THEN FallbackModel ELSE am
AfterLoopName(am, name) == IF ~Truthy(am) THEN FallbackName ELSE name

\* history of a probe: the call came back with a result whose chat_output
\* carries a non-empty content text ("content"), or in any other way
ProbeKind(out) ==
    IF /\ out.kind = "return"
       /\ out.v.t = "obj"
       /\ out.v.chat_output.t = "dict"
       /\ HasKey(out.v.chat_output, "content")
       /\ DictGet(out.v.chat_output, "content", None).t = "str"
       /\ DictGet(out.v.chat_output, "content", None).v # ""
    THEN "content"
    ELSE "nothing"

\* lines 89-98: the main thread enters run_in_thread for candidate idx; the
\* lambda binds m to the candidate's model when it is made
ProbeStart ==
    /\ mainPc = "probe"
    /\ HasFree
    /\ StartCall(FreeSlot, [model |-> Str(MODEL_PRIORITY[idx][2]), messages |-> ProbeMessages])
    /\ mainPc' = "probe_wait"
    /\ mainCall' = FreeSlot
    /\ UNCHANGED <<idx, ACTIVE_MODEL, ACTIVE_MODEL_NAME, probeOutcome>>
    /\ UNCHANGED reqVars

\* lines 99-112: the probe's result is read; break on the first accepted
\* candidate, the fallback after the last one
ProbeEnd ==
    /\ mainPc = "probe_wait"
    /\ callPc[mainCall] = "done"
    /\ LET out  == outcome[mainCall]
           hit  == ProbeAccepts(out)
           last == idx = NumModels
           am   == IF hit THEN Str(MODEL_PRIORITY[idx][2]) ELSE ACTIVE_MODEL
           name == IF hit THEN Str(MODEL_PRIORITY[idx][1]) ELSE ACTIVE_MODEL_NAME
       IN /\ probeOutcome' = [probeOutcome EXCEPT ![idx] = ProbeKind(out)]
          /\ ACTIVE_MODEL' = IF hit \/ last THEN AfterLoopModel(am) ELSE am
          /\ ACTIVE_MODEL_NAME' = IF hit \/ last THEN AfterLoopName(am, name) ELSE name
          /\ mainPc' = IF hit \/ last THEN "serve" ELSE "probe"
          /\ idx' = IF hit \/ last THEN idx ELSE idx + 1
    /\ mainCall' = 0
    /\ ReleaseCall(mainCall)
    /\ UNCHANGED reqVars

\* ------------------------------------------------------------------------
\* /api/ask and /api/status (app.py lines 119-178)
\* ------------------------------------------------------------------------
PROMPT_HEAD == "You are an Akinator-style oracle AI. The player is thinking of a "
PROMPT_TAIL ==
    ".\nAsk clever yes/no questions to deduce what they're thinking of, then guess.\nRULES:\n"
    \o "- Ask ONE question at a time: Yes/No/Maybe/Probably Yes/Probably No/I don't know\n"
    \o "- After 15-20 questions (or confidence > 80%), make your final guess\n"
    \o "- Guessing: respond ONLY with JSON (nothing else): "
    \o "{\"type\":\"guess\",\"name\":\"X\",\"description\":\"Y\",\"confidence\":85}\n"
    \o "- Asking: respond ONLY with JSON (nothing else): "
    \o "{\"type\":\"question\",\"text\":\"Q?\",\"confidence\":30}"

\* SYSTEM_PROMPT.format(category=category)
SystemPrompt(category) == PROMPT_HEAD \o PyStr(category) \o PROMPT_TAIL

WALLET == Str("0xWALLET")

\* a request body that is not JSON text
Invalid == [t |-> "invalid"]

Response(status, body) == [status |-> status, body |-> body]
NoResponse == [status |-> 0, body |-> None]

\* what Flask answers when get_json rejects the body / when the view raises
BadRequest == Response(400, Str("400 Bad Request"))
InternalServerError == Response(500, Str("500 Internal Server Error"))

ErrorBody(msg) == Dict(<< <<"success", PyBool(FALSE)>>, <<"error", Str(msg)>> >>)

\* "for m in history": the items, ok = FALSE the TypeError of a value that is
\* not iterable
Iter(v) ==
    CASE v.t = "list" -> [ok |-> TRUE, items |-> v.v]
      [] v.t = "str"  -> [ok |-> TRUE, items |-> [i \in 1..Len(v.v) |-> Str(Ch(v.v, i))]]
      [] v.t = "dict" -> [ok |-> TRUE, items |-> [i \in 1..Len(v.v) |-> Str(v.v[i][1])]]
      [] OTHER        -> [ok |-> FALSE, items |-> <<>>]

\* line 153 without the test of the role
KeepAnyRole(m) ==
    /\ m.t = "dict"
    /\ HasKey(m, "role")
    /\ Truthy(DictGet(m, "content", None))

\* line 153
Keep(m) ==
    /\ m.t = "dict"
    /\ LET role == DictGet(m, "role", None)
       IN role.t = "str" /\ role.v \in {"user", "assistant"}
    /\ Truthy(DictGet(m, "content", None))

\* lines 150-154
Clean(items) ==
    LET kept == SelectSeq(items, Keep)
    IN [i \in 1..Len(kept) |->
           Message(DictGet(kept[i], "role", None),
                   Str(PyStr(DictGet(kept[i], "content", None))))]

\* lines 146-155: the handler's locals, or the response Flask gives when a
\* line raises (none of these lines is inside the handler's try)
AskPrepare(body) ==
    LET data     == PyOr(body, Dict(<<>>))
        category == DictGet(data, "category", Str("thing"))
        history  == DictGet(data, "history", List(<<>>))
        qnum     == DictGet(data, "question_num", Num(1))
        it       == Iter(history)
        none     == [ok |-> FALSE, resp |-> NoResponse, question_num |-> None,
                     category |-> None, history |-> None, messages |-> None]
    IN IF body.t = "invalid" THEN [none EXCEPT !.resp = BadRequest]
       ELSE IF data.t # "dict" \/ ~it.ok THEN [none EXCEPT !.resp = InternalServerError]
       ELSE [ok |-> TRUE, resp |-> NoResponse, question_num |-> qnum,
             category |-> category, history |-> history,
             messages |-> List(<<Message(Str("system"), Str(SystemPrompt(category)))>>
                               \o Clean(it.items))]

Placeholder == "Is it a living thing?"

\* line 172 with the stripped text in place of the raw one
FallbackStripped(raw) ==
    Dict(<< <<"type", Str("question")>>,
            <<"text", PyOr(Str(Strip(raw)), Str(Placeholder))>>,
            <<"confidence", Num(10)>> >>)

\* line 172
Fallback(raw) ==
    Dict(<< <<"type", Str("question")>>,
            <<"text", PyOr(Str(raw), Str(Placeholder))>>,
            <<"confidence", Num(10)>> >>)

\* lines 167-169: the text handed to json.loads
Unfence(raw) ==
    LET s == Strip(raw)
    IN IF Contains(s, Fence)
       THEN Strip(LStripSet(SplitSecond(s, Fence), {"j", "s", "o", "n"}))
       ELSE s

\* lines 166-172
ParseReply(raw) ==
    LET r == JsonLoads(Unfence(raw))
    IN IF r.ok THEN r.val ELSE Fallback(raw)

\* lines 163-178 for what run_in_thread delivered
AskRespond(out, qnum) ==
    IF out.kind = "raise" THEN Response(500, ErrorBody(ExcStr(out.e)))
    ELSE IF out.v.t # "obj"
    THEN Response(500, ErrorBody("'NoneType' object has no attribute 'chat_output'"))
    ELSE LET co  == PyOr(out.v.chat_output, Dict(<<>>))
             raw == PyOr(DictGet(co, "content", Str("")), Str(""))
         IN Response(200, Dict(<< <<"success", PyBool(TRUE)>>,
                                  <<"response", ParseReply(raw.v)>>,
                                  <<"payment_hash", out.v.payment_hash>>,
                                  <<"question_num", qnum>> >>))

\* a request slot that can take a new request
Ready(r) == mainPc = "serve" /\ reqPc[r] = "idle"

\* GET /api/status, lines 138-140; bal is what get_opg_balance returns
Status(r, bal) ==
    /\ Ready(r)
    /\ req' = [req EXCEPT ![r] = [path |-> "status", method |-> "GET", body |-> None]]
    /\ reqPc' = [reqPc EXCEPT ![r] = "responded"]
    /\ resp' = [resp EXCEPT ![r] =
                   Response(200, Dict(<< <<"wallet", WALLET>>, <<"balance", bal>>,
                                         <<"model", ACTIVE_MODEL_NAME>> >>))]
    /\ delivered' = [delivered EXCEPT ![r] = NoOutcome]
    /\ UNCHANGED <<reqCall, startupVars, callVars>>

\* OPTIONS /api/ask, lines 144-145
AskOptions(r) ==
    /\ Ready(r)
    /\ req' = [req EXCEPT ![r] = [path |-> "ask", method |-> "OPTIONS", body |-> None]]
    /\ reqPc' = [reqPc EXCEPT ![r] = "responded"]
    /\ resp' = [resp EXCEPT ![r] = Response(200, Dict(<<>>))]
    /\ delivered' = [delivered EXCEPT ![r] = NoOutcome]
    /\ UNCHANGED <<reqCall, startupVars, callVars>>

\* POST /api/ask with the given body, lines 146-162: up to the start of the
\* worker, or to Flask's error response when a line before the try raises
AskBegin(r, body) ==
    /\ Ready(r)
    /\ req' = [req EXCEPT ![r] = [path |-> "ask", method |-> "POST", body |-> body]]
    /\ delivered' = [delivered EXCEPT ![r] = NoOutcome]
    /\ LET p == AskPrepare(body)
       IN IF p.ok
          THEN /\ HasFree
               /\ StartCall(FreeSlot, [model |-> None, messages |-> p.messages])
               /\ reqPc' = [reqPc EXCEPT ![r] = "waiting"]
               /\ reqCall' = [reqCall EXCEPT ![r] = FreeSlot]
               /\ resp' = [resp EXCEPT ![r] = NoResponse]
          ELSE /\ reqPc' = [reqPc EXCEPT ![r] = "responded"]
               /\ resp' = [resp EXCEPT ![r] = p.resp]
               /\ UNCHANGED <<reqCall, callVars>>
    /\ UNCHANGED startupVars

\* POST /api/ask, lines 163-178: run_in_thread has returned or raised
AskEnd(r) ==
    /\ reqPc[r] = "waiting"
    /\ callPc[reqCall[r]] = "done"
    /\ resp' = [resp EXCEPT ![r] =
                   AskRespond(outcome[reqCall[r]], AskPrepare(req[r].body).question_num)]
    /\ delivered' = [delivered EXCEPT ![r] = outcome[reqCall[r]]]
    /\ reqPc' = [reqPc EXCEPT ![r] = "responded"]
    /\ reqCall' = [reqCall EXCEPT ![r] = 0]
    /\ ReleaseCall(reqCall[r])
    /\ UNCHANGED <<req, startupVars>>

\* ------------------------------------------------------------------------
\* What the SDK and the clients can do
\* ------------------------------------------------------------------------
QuestionJson == "{\"type\":\"question\",\"text\":\"Does it have fur?\",\"confidence\":40}"
GuessJson == "{\"type\":\"guess\",\"name\":\"Cat\",\"description\":\"A pet\",\"confidence\":85}"

\* what client.llm.chat can do on the worker: return a result object or raise
SdkFailures ==
    { Raised(Exc("Exception", "boom")),
      Raised(Exc("CancelledError", "")) }

SdkPlain ==
    { Returned(Result(ChatOutput(Str(QuestionJson)), Str("0xabc"))),
      Raised(Exc("Exception", "boom")) }

SdkCore == SdkPlain \cup SdkFailures

SdkBasic == SdkCore \cup { Returned(Result(ChatOutput(Str("")), None)) }

\* texts a model can answer with
RawSamples ==
    { QuestionJson, GuessJson,
      "  " \o QuestionJson \o "\n",
      Fence \o "json\n" \o GuessJson \o "\n" \o Fence,
      Fence \o "\n" \o QuestionJson \o "\n" \o Fence,
      "Sure! " \o Fence \o "json\n" \o GuessJson \o "\n" \o Fence \o " Good luck.",
      Fence \o "null" \o Fence,
      Fence,
      "I think it's a cat",
      "  ",
      "{\"type\":\"question\",\"text\":\"Is it",
      "42", "null", "[1, 2]", "\"Is it alive?\"",
      "{\"type\":\"hint\",\"text\":\"Think\"}",
      "{\"type\":\"question\"}" }

SdkRich ==
    { Returned(Result(ChatOutput(Str(raw)), Str("0xabc"))) : raw \in RawSamples }
    \cup { Returned(Result(ChatOutput(Str("")), None)),
           Returned(Result(ChatOutput(None), Str("0xabc"))),
           Returned(Result(Dict(<<>>), None)),
           Returned(Result(None, None)) }
    \cup SdkFailures

Balances == {Num(5), Str("error(connection refused)")}

\* elements a client can put in a history array
Entries ==
    { Str("x"),
      Message(Str("user"), Str("Yes")),
      Message(Str("system"), Str("Yes")),
      Message(Str("user"), Str("")),
      Message(Str("user"), Num(7)),
      Message(Str("user"), Num(0)),
      Dict(<< <<"content", Str("Yes")>> >>),
      Dict(<< <<"role", Str("assistant")>>, <<"content", Str("Is it big?")>>,
              <<"ts", Num(1)>> >>) }

Histories == UNION { [1..n -> Entries] : n \in 0..MaxHistory }

Body(category, history, qnum) ==
    Dict(<< <<"category", category>>, <<"history", history>>, <<"question_num", qnum>> >>)

WellFormedBodies == { Body(Str("animal"), List(h), Num(3)) : h \in Histories }

\* bodies with a field missing or of another type, or that are no JSON object
MalformedBodies ==
    { Invalid, None, Num(5), Num(0), Str("hi"), List(<<>>), List(<<Num(1)>>),
      Dict(<<>>),
      Dict(<< <<"category", Str("animal")>> >>),
      Dict(<< <<"history", None>> >>),
      Dict(<< <<"history", Num(3)>> >>),
      Dict(<< <<"history", PyBool(TRUE)>> >>),
      Dict(<< <<"history", Str("ab")>> >>),
      Dict(<< <<"history", Message(Str("user"), Str("Yes"))>> >>),
      Body(Num(7), List(<<Message(Str("user"), Str("Yes"))>>), Str("two")),
      Body(None, List(<<>>), None) }

AskBodies == WellFormedBodies \cup MalformedBodies

BasicBodies ==
    { Body(Str("animal"), List(<<Message(Str("user"), Str("Yes"))>>), Num(2)),
      Dict(<< <<"history", None>> >>) }

\* ------------------------------------------------------------------------
\* The process: startup, then serving
\* ------------------------------------------------------------------------
NoRequest == [path |-> "", method |-> "", body |-> None]

\* the response has gone out and the request's context is torn down
Finish(r) ==
    /\ reqPc[r] = "responded"
    /\ reqPc' = [reqPc EXCEPT ![r] = "idle"]
    /\ req' = [req EXCEPT ![r] = NoRequest]
    /\ resp' = [resp EXCEPT ![r] = NoResponse]
    /\ delivered' = [delivered EXCEPT ![r] = NoOutcome]
    /\ UNCHANGED <<reqCall, startupVars, callVars>>

InitCalls ==
    /\ callPc = [c \in CallIds |-> "free"]
    /\ thread = [c \in CallIds |-> "none"]
    /\ result_box = [c \in CallIds |-> None]
    /\ error_box = [c \in CallIds |-> None]
    /\ callArgs = [c \in CallIds |-> NoArgs]
    /\ produced = [c \in CallIds |-> NoOutcome]
    /\ expired = [c \in CallIds |-> FALSE]
    /\ outcome = [c \in CallIds |-> NoOutcome]

InitRequests ==
    /\ reqPc = [r \in ReqIds |-> "idle"]
    /\ req = [r \in ReqIds |-> NoRequest]
    /\ reqCall = [r \in ReqIds |-> 0]
    /\ resp = [r \in ReqIds |-> NoResponse]
    /\ delivered = [r \in ReqIds |-> NoOutcome]

\* line 87, before the loop of line 89
Init ==
    /\ mainPc = "probe"
    /\ idx = 1
    /\ mainCall = 0
    /\ ACTIVE_MODEL = None
    /\ ACTIVE_MODEL_NAME = None
    /\ probeOutcome = [i \in 1..NumModels |-> "unprobed"]
    /\ InitCalls
    /\ InitRequests

Next ==
    \/ ProbeStart
    \/ ProbeEnd
    \/ \E c \in CallIds, out \in SdkPlain : WorkerRun(c, out)
    \/ \E c \in CallIds : Join(c)
    \/ \E c \in CallIds : Check(c)
    \/ \E r \in ReqIds, bal \in Balances : Status(r, bal)
    \/ \E r \in ReqIds : AskOptions(r)
    \/ \E r \in ReqIds, body \in BasicBodies : AskBegin(r, body)
    \/ \E r \in ReqIds : AskEnd(r)
    \/ \E r \in ReqIds : Finish(r)

Spec == Init /\ [][Next]_vars

\* ------------------------------------------------------------------------
\* Startup alone, the SDK also answering with empty content
\* ------------------------------------------------------------------------
NextStartup ==
    \/ ProbeStart
    \/ ProbeEnd
    \/ \E c \in CallIds, out \in SdkBasic : WorkerRun(c, out)
    \/ \E c \in CallIds : Join(c)
    \/ \E c \in CallIds : Check(c)

SpecStartup == Init /\ [][NextStartup]_vars

\* ------------------------------------------------------------------------
\* Serving alone: the process after startup has ended with candidate k taken
\* (k = 0: none, the fallback; here the fallback or the first candidate), one
\* request at a time, over every modelled body
\* ------------------------------------------------------------------------
StartupResult(k) ==
    /\ mainPc = "serve"
    /\ mainCall = 0
    /\ idx = IF k = 0 THEN NumModels ELSE k
    /\ ACTIVE_MODEL = IF k = 0 THEN FallbackModel ELSE Str(MODEL_PRIORITY[k][2])
    /\ ACTIVE_MODEL_NAME = IF k = 0 THEN FallbackName ELSE Str(MODEL_PRIORITY[k][1])
    /\ probeOutcome = [i \in 1..NumModels |->
                          IF k = 0 \/ i < k THEN "nothing"
                          ELSE IF i = k THEN "content" ELSE "unprobed"]

InitAsk ==
    /\ \E k \in {0, 1} : StartupResult(k)
    /\ InitCalls
    /\ InitRequests

NextAsk ==
    \/ \E body \in AskBodies : AskBegin(1, body)
    \/ AskEnd(1)
    \/ Finish(1)
    \/ \E c \in CallIds, out \in SdkBasic : WorkerRun(c, out)
    \/ \E c \in CallIds : Join(c)
    \/ \E c \in CallIds : Check(c)

SpecAsk == InitAsk /\ [][NextAsk]_vars

\* the same, requests side by side, over two bodies
NextCalls ==
    \/ \E r \in ReqIds, body \in BasicBodies : AskBegin(r, body)
    \/ \E r \in ReqIds : AskEnd(r)
    \/ \E r \in ReqIds : Finish(r)
    \/ \E c \in CallIds, out \in SdkCore : WorkerRun(c, out)
    \/ \E c \in CallIds : Join(c)
    \/ \E c \in CallIds : Check(c)

SpecCalls == InitAsk /\ [][NextCalls]_vars

\* the same, one request at a time, over two bodies and every modelled model
\* answer
NextReply ==
    \/ AskOptions(1)
    \/ \E body \in BasicBodies : AskBegin(1, body)
    \/ AskEnd(1)
    \/ Finish(1)
    \/ \E c \in CallIds, out \in SdkRich : WorkerRun(c, out)
    \/ \E c \in CallIds : Join(c)
    \/ \E c \in CallIds : Check(c)

SpecReply == InitAsk /\ [][NextReply]_vars

\* ------------------------------------------------------------------------
\* Properties of run_in_thread
\* ------------------------------------------------------------------------
TimedOut == Raised(TimeoutError(DefaultTimeout))

Finished(c) == callPc[c] = "done"

\* C1, as stated: a worker that finishes with a value before the join bound
\* expires has exactly that value returned; a worker still running when the
\* bound expires makes the call raise 'Timed out after <timeout>s'; every call
\* ends in exactly one of return value, timeout failure, worker's exception.
C1_AsStated ==
    \A c \in CallIds : Finished(c) =>
        /\ (produced[c].kind = "return" /\ ~expired[c]
                => outcome[c] = Returned(produced[c].v))
        /\ (expired[c] => outcome[c] = TimedOut)
        /\ \/ outcome[c].kind = "return"
           \/ outcome[c] = TimedOut
           \/ produced[c].kind = "raise" /\ outcome[c] = Raised(produced[c].e)

\* C1, amended: a worker that finishes with a value before the join returns
\* has exactly that value returned; the call raises the timeout failure exactly
\* when the worker is still alive at the is_alive() test after the join, so a
\* worker that ends between the expiry of the bound and that test has its
\* result delivered; it raises the timeout failure only after the bound has
\* expired; every call ends in exactly one of return value, timeout failure,
\* worker's exception.
C1_Amended ==
    \A c \in CallIds : Finished(c) =>
        /\ (produced[c].kind = "return" /\ ~expired[c]
                => outcome[c] = Returned(produced[c].v))
        /\ (thread[c] = "alive" => outcome[c] = TimedOut)
        /\ (outcome[c] = TimedOut => expired[c])
        /\ (expired[c] /\ produced[c].kind = "return" /\ outcome[c] # TimedOut
                => outcome[c] = Returned(produced[c].v))
        /\ \/ outcome[c].kind = "return"
           \/ outcome[c] = TimedOut
           \/ produced[c].kind = "raise" /\ outcome[c] = Raised(produced[c].e)

\* the bound expired with the worker alive, the worker then ended before the
\* is_alive() test, and the call returned the worker's value
C1_Witness ==
    \E c \in CallIds :
        /\ Finished(c) /\ expired[c]
        /\ produced[c].kind = "return"
        /\ outcome[c] = Returned(produced[c].v)

\* C9: when fn raises on the worker and the worker ends within the bound, the
\* same exception is raised in the caller; no value is returned.
C9_AsStated ==
    \A c \in CallIds :
        Finished(c) /\ produced[c].kind = "raise" /\ ~expired[c]
            => outcome[c] = Raised(produced[c].e)

\* C10: what a call delivers comes from its own callable: a returned value is
\* the one its callable returned (None, the box's first content, when the
\* callable wrote nothing), a raised exception is its callable's or the call's
\* own timeout; the boxes of a call hold nothing but its own callable's product,
\* whatever the workers of other calls, abandoned ones included, do meanwhile.
C10_Isolation ==
    \A c \in CallIds :
        /\ result_box[c].t # "none"
               => produced[c].kind = "return" /\ result_box[c] = produced[c].v
        /\ error_box[c].t # "none"
               => produced[c].kind = "raise" /\ error_box[c] = produced[c].e
        /\ Finished(c) /\ outcome[c].kind = "return"
               => outcome[c].v = (IF produced[c].kind = "return" THEN produced[c].v ELSE None)
        /\ Finished(c) /\ outcome[c].kind = "raise"
               => \/ outcome[c] = TimedOut
                  \/ produced[c].kind = "raise" /\ outcome[c].e = produced[c].e

\* two calls have ended side by side, one with the value its callable
\* returned, the other with the exception its callable raised
C10_Witness ==
    \E c, d \in CallIds :
        /\ c # d /\ Finished(c) /\ Finished(d)
        /\ produced[c].kind = "return" /\ outcome[c] = Returned(produced[c].v)
        /\ produced[d].kind = "raise" /\ outcome[d] = Raised(produced[d].e)

\* ------------------------------------------------------------------------
\* Properties of the startup probe and of the model selection
\* ------------------------------------------------------------------------
Hits == {i \in 1..NumModels : probeOutcome[i] = "content"}

\* C2: once startup has ended, the selection is the first candidate of
\* MODEL_PRIORITY whose probe returned non-empty content, every candidate
\* before it was probed and returned none, no candidate after it was probed;
\* when no probe returned non-empty content, every candidate was probed and
\* the selection is CLAUDE_3_5_HAIKU, labelled 'CLAUDE_3_5_HAIKU (fallback)'.
C2_FirstSuccess ==
    mainPc = "serve" =>
        IF Hits # {}
        THEN LET k == CHOOSE i \in Hits : \A j \in Hits : i <= j
             IN /\ ACTIVE_MODEL = Str(MODEL_PRIORITY[k][2])
                /\ ACTIVE_MODEL_NAME = Str(MODEL_PRIORITY[k][1])
                /\ \A i \in 1..NumModels :
                       probeOutcome[i] = (IF i < k THEN "nothing"
                                          ELSE IF i = k THEN "content" ELSE "unprobed")
        ELSE /\ ACTIVE_MODEL = Str("TEE_LLM.CLAUDE_3_5_HAIKU")
             /\ ACTIVE_MODEL_NAME = Str("CLAUDE_3_5_HAIKU (fallback)")
             /\ \A i \in 1..NumModels : probeOutcome[i] = "nothing"

\* the third candidate was taken after two probes that gave nothing, one of
\* them abandoned on a timeout and still running
C2_Witness ==
    /\ mainPc = "serve"
    /\ ACTIVE_MODEL_NAME = Str("GEMINI_2_0_FLASH")
    /\ \E c \in CallIds : callPc[c] = "free" /\ thread[c] = "alive"

\* C8: the selection goes from None to a value once, in startup, and is never
\* written again; it is not None when request handling begins; no step of
\* request handling, of a bounded call or of a worker, abandoned ones
\* included, changes it.
C8_WrittenOnce ==
    [][ /\ (ACTIVE_MODEL # None \/ ACTIVE_MODEL_NAME # None \/ mainPc = "serve"
               => UNCHANGED <<ACTIVE_MODEL, ACTIVE_MODEL_NAME>>)
        /\ (mainPc' = "serve" => ACTIVE_MODEL' # None /\ ACTIVE_MODEL_NAME' # None)
        /\ (mainPc = "serve" => mainPc' = "serve") ]_vars

\* a request whose bounded call timed out has been answered, its abandoned
\* worker still runs, and a status request has been answered with the label
C8_Witness ==
    \E r, q \in ReqIds, c \in CallIds :
        /\ reqPc[r] = "responded" /\ delivered[r] = TimedOut
        /\ callPc[c] = "free" /\ thread[c] = "alive"
        /\ reqPc[q] = "responded" /\ req[q].path = "status"
        /\ DictGet(resp[q].body, "model", None) = ACTIVE_MODEL_NAME

\* ------------------------------------------------------------------------
\* Properties of POST /api/ask
\* ------------------------------------------------------------------------
\* a POST /api/ask whose body is JSON text
IsAsk(r) == req[r].path = "ask" /\ req[r].method = "POST" /\ req[r].body.t # "invalid"
Answered(r) == IsAsk(r) /\ reqPc[r] = "responded"

\* a JSON response body {success: false, error: <text>}
IsFailureBody(b) ==
    /\ b.t = "dict"
    /\ DictGet(b, "success", None) = PyBool(FALSE)
    /\ DictGet(b, "error", None).t = "str"

\* a JSON response body {success: true, response, payment_hash, question_num}
IsSuccessBody(b) ==
    /\ b.t = "dict"
    /\ DictGet(b, "success", None) = PyBool(TRUE)
    /\ HasKey(b, "response") /\ HasKey(b, "payment_hash") /\ HasKey(b, "question_num")

\* C3: a request whose bounded call failed is answered 500 with
\* {success: false, error: <the exception's message>}; one whose bounded call
\* returned is answered 200 with {success: true, response, payment_hash,
\* question_num}; no request is answered in any other way.
C3_AsStated ==
    \A r \in ReqIds : Answered(r) =>
        /\ (delivered[r].kind = "raise"
               => /\ resp[r].status = 500
                  /\ IsFailureBody(resp[r].body)
                  /\ DictGet(resp[r].body, "error", None) = Str(delivered[r].e.msg))
        /\ (delivered[r].kind = "return"
               => resp[r].status = 200 /\ IsSuccessBody(resp[r].body))
        /\ \/ resp[r].status = 500 /\ IsFailureBody(resp[r].body)
           \/ resp[r].status = 200 /\ IsSuccessBody(resp[r].body)

\* the fields a body that is no object, or that lacks the field or has it
\* with another type, is to be handled with
WantedCategory(body) ==
    IF body.t = "dict" /\ DictGet(body, "category", None).t = "str"
    THEN DictGet(body, "category", None) ELSE Str("thing")
WantedHistory(body) ==
    IF body.t = "dict" /\ DictGet(body, "history", None).t = "list"
    THEN DictGet(body, "history", None) ELSE List(<<>>)
WantedQuestionNum(body) ==
    IF body.t = "dict" /\ DictGet(body, "question_num", None).t = "num"
    THEN DictGet(body, "question_num", None) ELSE Num(1)

\* C7: a body in which category, history or question_num is missing or of
\* another type, or that is no JSON object, is not rejected: the handler goes
\* on to the model call with category 'thing', history [] and question_num 1
\* in place of what is missing or mistyped.
C7_AsStated ==
    \A r \in ReqIds : IsAsk(r) =>
        /\ (reqPc[r] = "waiting" =>
               /\ AskPrepare(req[r].body).category = WantedCategory(req[r].body)
               /\ AskPrepare(req[r].body).history = WantedHistory(req[r].body)
               /\ AskPrepare(req[r].body).question_num = WantedQuestionNum(req[r].body))
        /\ (reqPc[r] = "responded" => delivered[r].kind # "none")

\* an entry the claim keeps: an object whose role is 'user' or 'assistant' and
\* whose content is there and is neither null, nor "", nor 0
Valid(e) ==
    /\ e.t = "dict"
    /\ HasKey(e, "role") /\ HasKey(e, "content")
    /\ \E role \in {"user", "assistant"} : DictGet(e, "role", None) = Str(role)
    /\ LET content == DictGet(e, "content", None)
       IN \/ content.t = "str" /\ content.v # ""
          \/ content.t = "num" /\ content.v # 0

\* a kept entry as it is forwarded: its role and its content as text
Forwarded(e) ==
    LET content == DictGet(e, "content", None)
    IN Dict(<< <<"role", DictGet(e, "role", None)>>,
               <<"content", Str(IF content.t = "num" THEN IntStr(content.v) ELSE content.v)>> >>)

\* the k-th smallest element of a set of numbers
Nth(S, k) == CHOOSE i \in S : Cardinality({j \in S : j < i}) = k - 1

\* C6: for every history array, the messages handed to the model are the
\* system prompt followed by exactly the entries whose role is 'user' or
\* 'assistant' and whose content is non-empty, in their order in the array;
\* every other entry is dropped and the request is not failed for it.
C6_Sanitized ==
    \A r \in ReqIds :
        IsAsk(r) /\ reqPc[r] # "idle" /\ req[r].body.t = "dict"
                 /\ DictGet(req[r].body, "history", None).t = "list" =>
            LET h    == DictGet(req[r].body, "history", None).v
                K    == {i \in 1..Len(h) : Valid(h[i])}
                msgs == callArgs[reqCall[r]].messages.v
            IN /\ resp[r].status \notin {400, 500} \/ delivered[r].kind # "none"
               /\ reqPc[r] = "waiting" =>
                     /\ Len(msgs) = 1 + Cardinality(K)
                     /\ msgs[1] = Dict(<< <<"role", Str("system")>>,
                                          <<"content", Str(SystemPrompt(
                                              DictGet(req[r].body, "category", None)))>> >>)
                     /\ \A k \in 1..Cardinality(K) : msgs[k + 1] = Forwarded(h[Nth(K, k)])

\* a history of two entries, both kept and different, is waiting on the model
C6_Witness ==
    \E r \in ReqIds :
        /\ IsAsk(r) /\ reqPc[r] = "waiting"
        /\ req[r].body.t = "dict"
        /\ DictGet(req[r].body, "history", None).t = "list"
        /\ Len(DictGet(req[r].body, "history", None).v) = 2
        /\ Len(callArgs[reqCall[r]].messages.v) = 3
        /\ callArgs[reqCall[r]].messages.v[2] # callArgs[reqCall[r]].messages.v[3]

\* ------------------------------------------------------------------------
\* Properties of the reply parsing
\* ------------------------------------------------------------------------
\* {type: "question", text, confidence} or {type: "guess", name, description,
\* confidence}
IsOracleReply(v) ==
    /\ v.t = "dict"
    /\ DictGet(v, "confidence", None).t = "num"
    /\ \/ /\ DictGet(v, "type", None) = Str("question")
          /\ DictGet(v, "text", None).t = "str"
       \/ /\ DictGet(v, "type", None) = Str("guess")
          /\ DictGet(v, "name", None).t = "str"
          /\ DictGet(v, "description", None).t = "str"

Succeeded(r) == Answered(r) /\ resp[r].status = 200 /\ IsSuccessBody(resp[r].body)

\* the text the model answered with, for a call that returned a result
RawOf(out) ==
    IF out.v.chat_output.t = "dict" /\ DictGet(out.v.chat_output, "content", None).t = "str"
    THEN DictGet(out.v.chat_output, "content", None).v
    ELSE ""

\* C4: the 'response' of every success payload is one of the two Oracle reply
\* shapes; a model output that does not parse to one is replaced by the
\* fallback question.
C4_AsStated ==
    \A r \in ReqIds :
        Succeeded(r) => IsOracleReply(DictGet(resp[r].body, "response", None))

\* C5: when the model's text fails to parse as JSON, after the code-fence
\* stripping, the request is answered 200 with success: true and 'response'
\* exactly {type: "question", text: <the raw text as it came>, confidence: 10},
\* the text being "Is it a living thing?" only when the raw text is empty;
\* it is never answered with the failure body.
C5_FallbackOnParseFailure ==
    \A r \in ReqIds :
        Answered(r) /\ delivered[r].kind = "return" /\ delivered[r].v.t = "obj"
                    /\ ~JsonLoads(Unfence(RawOf(delivered[r]))).ok =>
            /\ resp[r].status = 200
            /\ IsSuccessBody(resp[r].body)
            /\ DictGet(resp[r].body, "response", None) =
                   Dict(<< <<"type", Str("question")>>,
                           <<"text", Str(IF RawOf(delivered[r]) = ""
                                         THEN "Is it a living thing?"
                                         ELSE RawOf(delivered[r]))>>,
                           <<"confidence", Num(10)>> >>)

\* a text with blanks around it that is no JSON came back as the fallback
\* question with the text as it was
C5_Witness ==
    \E r \in ReqIds :
        /\ Succeeded(r)
        /\ RawOf(delivered[r]) = "  "
        /\ DictGet(DictGet(resp[r].body, "response", None), "text", None) = Str("  ")

====
